---------------------------- MODULE Spec2Model ----------------------------
(***************************************************************************)
(* Model of after_tax_wage_calculator.py: the deduction calculator         *)
(* (TaxableWageCalculator), the cumulative progressive tax calculator      *)
(* (AfterTaxWageCalculator), the separately taxed annual bonus             *)
(* (SeparateAfterTaxWageCalculator) and the search loop of __main__.       *)
(*                                                                         *)
(* Amounts of money are exact decimal fixed-point numbers.  The program    *)
(* computes with Python ints and binary floats; the rounding of binary     *)
(* floating point is not modelled, every product and sum is the exact one. *)
(* An amount is a tuple <<y, f>> standing for y + f / Frac yuan, with      *)
(* 0 <= f < Frac and y any integer (a negative amount has y < 0), or, when *)
(* it is too wide for that, a tuple <<y2, y1, y0, f>> standing for         *)
(*      (y2 * Radix^2 + y1 * Radix + y0) + f / Frac      yuan,             *)
(* with 0 <= y0, y1 < Radix.  The wide form is needed for sys.maxsize =    *)
(* 2^63 - 1, the upper bound of the last tax bracket.  Two amounts are     *)
(* compared with Less, Leq and Eq, never with =.                           *)
(***************************************************************************)
EXTENDS Integers, Sequences, FiniteSets, TLC

VARIABLES pc, args, ret, loop, search

vars == <<pc, args, ret, loop, search>>

---------------------------------------------------------------------------
(* Exact decimal arithmetic *)

Frac == 2 * 10^5
Radix == 10^7

\* An amount is short, <<y, f>>, or long, <<y2, y1, y0, f>>.
Wide(a) ==
  IF Len(a) = 2
  THEN <<(a[1] \div Radix) \div Radix, (a[1] \div Radix) % Radix, a[1] % Radix, a[2]>>
  ELSE a

\* carries of a long amount whose limbs left their ranges
Norm(t) ==
  LET a0 == t[3] + (t[4] \div Frac)
      a1 == t[2] + (a0 \div Radix)
  IN  <<t[1] + (a1 \div Radix), a1 % Radix, a0 % Radix, t[4] % Frac>>

Zero == <<0, 0>>

\* the integer n as an amount
Yuan(n) == <<n, 0>>

AddLong(a, b) == Norm(<<a[1] + b[1], a[2] + b[2], a[3] + b[3], a[4] + b[4]>>)

SubLong(a, b) == Norm(<<a[1] - b[1], a[2] - b[2], a[3] - b[3], a[4] - b[4]>>)

LessLong(a, b) ==
  \/ a[1] < b[1]
  \/ a[1] = b[1] /\ \/ a[2] < b[2]
                    \/ a[2] = b[2] /\ \/ a[3] < b[3]
                                      \/ a[3] = b[3] /\ a[4] < b[4]

Add(a, b) ==
  IF Len(a) = 2 /\ Len(b) = 2
  THEN IF a[2] + b[2] >= Frac THEN <<a[1] + b[1] + 1, a[2] + b[2] - Frac>>
       ELSE <<a[1] + b[1], a[2] + b[2]>>
  ELSE AddLong(Wide(a), Wide(b))

Sub(a, b) ==
  IF Len(a) = 2 /\ Len(b) = 2
  THEN IF a[2] < b[2] THEN <<a[1] - b[1] - 1, a[2] - b[2] + Frac>>
       ELSE <<a[1] - b[1], a[2] - b[2]>>
  ELSE SubLong(Wide(a), Wide(b))

Less(a, b) ==
  IF Len(a) = 2 /\ Len(b) = 2
  THEN a[1] < b[1] \/ (a[1] = b[1] /\ a[2] < b[2])
  ELSE LessLong(Wide(a), Wide(b))

Leq(a, b) == ~Less(b, a)

Eq(a, b) == ~Less(a, b) /\ ~Less(b, a)

\* whether a short amount is small enough to be multiplied in one limb
Small(a) == Len(a) = 2 /\ a[1] < Radix /\ a[1] > -Radix

\* a * k for an integer 0 <= k <= 200
MulLong(w, k) == Norm(<<w[1] * k, w[2] * k, w[3] * k, w[4] * k>>)

MulInt(a, k) ==
  IF Small(a)
  THEN <<a[1] * k + ((a[2] * k) \div Frac), (a[2] * k) % Frac>>
  ELSE MulLong(Wide(a), k)

\* a / d for an integer 1 <= d <= 200, rounded down to a multiple of 1 / Frac
\* (every quotient the model takes is exact)
DivLong(a, d) ==
  LET n2 == (a[1] % d) * Radix + a[2]
      n3 == (n2 % d) * Radix + a[3]
      n4 == (n3 % d) * Frac + a[4]
  IN  <<a[1] \div d, n2 \div d, n3 \div d, n4 \div d>>

DivSmall(a, d) ==
  IF Small(a)
  THEN <<a[1] \div d, ((a[1] % d) * Frac + a[2]) \div d>>
  ELSE DivLong(Wide(a), d)

\* a * ratio, the ratio a decimal fraction <<numerator, denominator>> with
\* denominator 100 or 1000
Hundredths(h, denominator) == IF denominator = 100 THEN h ELSE DivLong(h, 10)

MulRatio(a, ratio) ==
  IF Small(a)
  THEN LET q == (((a[1] * ratio[1]) % ratio[2]) * Frac + a[2] * ratio[1]) \div ratio[2]
       IN  <<((a[1] * ratio[1]) \div ratio[2]) + (q \div Frac), q % Frac>>
  ELSE Hundredths(DivLong(MulLong(Wide(a), ratio[1]), 100), ratio[2])

---------------------------------------------------------------------------
(* TaxableWageCalculator *)

\* A Python list is a sequence; element i of the code is element i + 1 here.

\* SocialInsurance(lower_bound, upper_bound, ratio, coupon),
\* HousingFund(...) and TaxRatio(...) all store the same four fields
Bracket(lower_bound, upper_bound, ratio, coupon) ==
  [min |-> lower_bound, max |-> upper_bound, ratio |-> ratio, coupon |-> coupon]

SOCIAL_INSURANCE_LOWER_BOUND == 7310
SOCIAL_INSURANCE_UPPER_BOUND == 36549

SOCIAL_INSURANCE_PERSONAL_PER_MONTH ==
  << Bracket(Yuan(SOCIAL_INSURANCE_LOWER_BOUND), Yuan(SOCIAL_INSURANCE_UPPER_BOUND),
             <<8, 100>>, Zero),
     Bracket(Yuan(SOCIAL_INSURANCE_LOWER_BOUND), Yuan(SOCIAL_INSURANCE_UPPER_BOUND),
             <<2, 100>>, Zero),
     Bracket(Yuan(SOCIAL_INSURANCE_LOWER_BOUND), Yuan(SOCIAL_INSURANCE_UPPER_BOUND),
             <<5, 1000>>, Zero) >>

SOCIAL_INSURANCE_PERSONAL == [m \in 1 .. 12 |-> SOCIAL_INSURANCE_PERSONAL_PER_MONTH]

\* 362.0 / 2 and 5116.0 / 2
HOUSING_FUND_LOWER_BOUND == DivSmall(Yuan(362), 2)
HOUSING_FUND_UPPER_BOUND == DivSmall(Yuan(5116), 2)

HOUSING_FUND_PERSONAL_PER_MONTH ==
  Bracket(HOUSING_FUND_LOWER_BOUND, HOUSING_FUND_UPPER_BOUND, <<7, 100>>, Zero)

HOUSING_FUND_PERSONAL == [m \in 1 .. 12 |-> HOUSING_FUND_PERSONAL_PER_MONTH]

\* if temp < min: temp = min / elif temp > max: temp = max
Clamp(temp, min, max) ==
  IF Less(temp, min) THEN min
  ELSE IF Less(max, temp) THEN max
  ELSE temp

\* the insurance term without the clamp of the base
InsuranceTermUnclamped(social_insurance_base, b) ==
  MulRatio(Sub(social_insurance_base, b.coupon), b.ratio)

\* one pass of the inner loop over the insurance brackets: the base less the
\* coupon, clamped into [min, max], times the bracket's ratio
InsuranceTerm(social_insurance_base, b) ==
  MulRatio(Clamp(Sub(social_insurance_base, b.coupon), b.min, b.max), b.ratio)

\* the inner loop: the sum over the insurance brackets of one month
InsuranceSum(social_insurance_base, social_insurance_personal) ==
  LET sum[j \in 0 .. Len(social_insurance_personal)] ==
        IF j = 0 THEN Zero
        ELSE Add(sum[j - 1],
                 InsuranceTerm(social_insurance_base, social_insurance_personal[j]))
  IN  sum[Len(social_insurance_personal)]

\* the housing-fund part with the base clamped instead of the amount
HousingFundPartOfClampedBase(housing_fund_base, housing_fund_personal) ==
  MulRatio(Clamp(housing_fund_base, housing_fund_personal.min, housing_fund_personal.max),
           housing_fund_personal.ratio)

\* the housing-fund part: the amount base * ratio clamped into [min, max]
HousingFundPart(housing_fund_base, housing_fund_personal) ==
  Clamp(MulRatio(housing_fund_base, housing_fund_personal.ratio),
        housing_fund_personal.min, housing_fund_personal.max)

\* pre_tax_deduction_personal of month i (i counted from 0)
PreTaxDeduction(i, social_insurance_base, housing_fund_base) ==
  Add(InsuranceSum(social_insurance_base, SOCIAL_INSURANCE_PERSONAL[i + 1]),
      HousingFundPart(housing_fund_base, HOUSING_FUND_PERSONAL[i + 1]))

\* the end of a pass that replaces a negative taxable wage by 0
TaxableAppendClamped(st, gross_wage, pre_tax_deduction_personal) ==
  [status |-> "ok",
   value |-> Append(st.value,
                    IF Less(Sub(gross_wage, pre_tax_deduction_personal), Zero) THEN Zero
                    ELSE Sub(gross_wage, pre_tax_deduction_personal)),
   pre_tax_deduction_personal |-> pre_tax_deduction_personal]

\* the check and the append that end a pass of the loop of get_taxable_wages
TaxableAppend(st, gross_wage, pre_tax_deduction_personal) ==
  IF Less(Sub(gross_wage, pre_tax_deduction_personal), Zero)
  THEN [status |-> "ValueError", value |-> <<>>,
        pre_tax_deduction_personal |-> pre_tax_deduction_personal]
  ELSE [status |-> "ok",
        value |-> Append(st.value, Sub(gross_wage, pre_tax_deduction_personal)),
        pre_tax_deduction_personal |-> pre_tax_deduction_personal]

\* month i (counted from 0, i > 0) has the brackets and the bases of month
\* i - 1: its deduction, which depends on nothing else, is then the one the
\* variable pre_tax_deduction_personal still holds from the pass before
SameDeduction(i, social_insurance_bases, housing_fund_bases) ==
  /\ i > 0
  /\ social_insurance_bases[i + 1] = social_insurance_bases[i]
  /\ housing_fund_bases[i + 1] = housing_fund_bases[i]
  /\ SOCIAL_INSURANCE_PERSONAL[i + 1] = SOCIAL_INSURANCE_PERSONAL[i]
  /\ HOUSING_FUND_PERSONAL[i + 1] = HOUSING_FUND_PERSONAL[i]

\* one pass of the loop of get_taxable_wages: month i (counted from 0); st is
\* the list built so far with the last value of pre_tax_deduction_personal,
\* or the error raised
TaxableMonth(st, i, gross_wages, social_insurance_bases, housing_fund_bases) ==
  IF st.status # "ok" THEN st
  ELSE TaxableAppend(st, gross_wages[i + 1],
                     IF SameDeduction(i, social_insurance_bases, housing_fund_bases)
                     THEN st.pre_tax_deduction_personal
                     ELSE PreTaxDeduction(i, social_insurance_bases[i + 1],
                                          housing_fund_bases[i + 1]))

\* the loop over the months 0 .. size - 1
TaxableLoop(gross_wages, social_insurance_bases, housing_fund_bases) ==
  LET after[m \in 0 .. Len(gross_wages)] ==
        IF m = 0
        THEN [status |-> "ok", value |-> <<>>, pre_tax_deduction_personal |-> Zero]
        ELSE TaxableMonth(after[m - 1], m - 1, gross_wages,
                          social_insurance_bases, housing_fund_bases)
  IN  after[Len(gross_wages)]

\* what get_taxable_wages returns or raises after the loop ended in st
TaxableResult(st) == [status |-> st.status, value |-> st.value]

get_taxable_wages(gross_wages, social_insurance_bases, housing_fund_bases) ==
  IF ~(Len(gross_wages) = 12
       /\ Len(social_insurance_bases) = Len(gross_wages)
       /\ Len(housing_fund_bases) = Len(gross_wages))
  THEN [status |-> "AssertionError", value |-> <<>>]
  ELSE TaxableResult(TaxableLoop(gross_wages, social_insurance_bases, housing_fund_bases))

---------------------------------------------------------------------------
(* AfterTaxWageCalculator *)

\* sys.maxsize = 2^63 - 1 = 9223372036854775807
sys_maxsize == <<92233, 7203685, 4775807, 0>>

\* the bracket returned when no bracket of a table matches
NoTaxRatio == Bracket(Zero, Zero, <<0, 100>>, Zero)

\* the monthly table with a hole between its first two brackets
TAX_RATIO_PER_MONTH_WithHole ==
  << Bracket(Yuan(0), Yuan(36000), <<3, 100>>, Yuan(0)),
     Bracket(Yuan(36001), Yuan(144000), <<10, 100>>, Yuan(2520)),
     Bracket(Yuan(144000), Yuan(300000), <<20, 100>>, Yuan(16920)),
     Bracket(Yuan(300000), Yuan(420000), <<25, 100>>, Yuan(31920)),
     Bracket(Yuan(420000), Yuan(660000), <<30, 100>>, Yuan(52920)),
     Bracket(Yuan(660000), Yuan(960000), <<35, 100>>, Yuan(85920)),
     Bracket(Yuan(960000), sys_maxsize, <<45, 100>>, Yuan(181920)) >>

TAX_RATIO_PER_MONTH ==
  << Bracket(Yuan(0), Yuan(36000), <<3, 100>>, Yuan(0)),
     Bracket(Yuan(36000), Yuan(144000), <<10, 100>>, Yuan(2520)),
     Bracket(Yuan(144000), Yuan(300000), <<20, 100>>, Yuan(16920)),
     Bracket(Yuan(300000), Yuan(420000), <<25, 100>>, Yuan(31920)),
     Bracket(Yuan(420000), Yuan(660000), <<30, 100>>, Yuan(52920)),
     Bracket(Yuan(660000), Yuan(960000), <<35, 100>>, Yuan(85920)),
     Bracket(Yuan(960000), sys_maxsize, <<45, 100>>, Yuan(181920)) >>

TAX_RATIO == [m \in 1 .. 12 |-> TAX_RATIO_PER_MONTH]

WAGE_FREE_OF_TAX == [m \in 1 .. 12 |-> Yuan(5000)]

\* the first bracket of table with min < x <= max, or the bracket of zeros
FirstMatch(table, x) ==
  LET first[k \in 1 .. Len(table) + 1] ==
        IF k > Len(table) THEN NoTaxRatio
        ELSE IF Less(table[k].min, x) /\ Leq(x, table[k].max) THEN table[k]
        ELSE first[k + 1]
  IN  first[1]

\* AfterTaxWageCalculator.get_tax_ratio, for 0 <= month < 12
get_tax_ratio(month, net_taxable_wage) ==
  FirstMatch(TAX_RATIO[month + 1], net_taxable_wage)

\* the accumulators and the list at the start of get_after_tax_wages
AfterTaxStart ==
  [accumulated_taxable_wage |-> Zero,
   accumulated_wage_free_of_tax |-> Zero,
   accumulated_tax_amount_paid |-> Zero,
   after_tax_wages |-> <<>>,
   current_tax_amount |-> Zero,
   status |-> "ok"]

\* max(0, diff)
AtLeastZero(diff) == IF Less(diff, Zero) THEN Zero ELSE diff

\* accumulated_tax_amount_payable under the bracket tax_ratio
PayableUnder(accumulated_net_taxable_wage, tax_ratio) ==
  Sub(MulRatio(accumulated_net_taxable_wage, tax_ratio.ratio), tax_ratio.coupon)

\* accumulated_tax_amount_payable of month i
Payable(i, accumulated_net_taxable_wage) ==
  PayableUnder(accumulated_net_taxable_wage,
               get_tax_ratio(i, accumulated_net_taxable_wage))

\* the end of a pass: the check of current_tax_amount, the append and the
\* update of accumulated_tax_amount_paid
AfterTaxAppend(st, taxable_wage, accumulated_taxable_wage, accumulated_wage_free_of_tax, accumulated_tax_amount_payable, current_tax_amount) ==
  IF Less(current_tax_amount, Zero)
  THEN [st EXCEPT !.accumulated_taxable_wage = accumulated_taxable_wage,
                  !.accumulated_wage_free_of_tax = accumulated_wage_free_of_tax,
                  !.current_tax_amount = current_tax_amount,
                  !.status = "ValueError"]
  ELSE [accumulated_taxable_wage |-> accumulated_taxable_wage,
        accumulated_wage_free_of_tax |-> accumulated_wage_free_of_tax,
        accumulated_tax_amount_paid |-> accumulated_tax_amount_payable,
        after_tax_wages |-> Append(st.after_tax_wages,
                                   Sub(taxable_wage, current_tax_amount)),
        current_tax_amount |-> current_tax_amount,
        status |-> "ok"]

\* the pass once the tax payable on the accumulated amounts is known
AfterTaxCurrent(st, taxable_wage, accumulated_taxable_wage, accumulated_wage_free_of_tax, accumulated_tax_amount_payable) ==
  AfterTaxAppend(st, taxable_wage, accumulated_taxable_wage, accumulated_wage_free_of_tax,
                 accumulated_tax_amount_payable,
                 Sub(accumulated_tax_amount_payable, st.accumulated_tax_amount_paid))

\* the pass once the two accumulators are updated
AfterTaxAccumulated(st, i, taxable_wage, accumulated_taxable_wage, accumulated_wage_free_of_tax) ==
  AfterTaxCurrent(st, taxable_wage, accumulated_taxable_wage, accumulated_wage_free_of_tax,
                  Payable(i, AtLeastZero(Sub(accumulated_taxable_wage,
                                             accumulated_wage_free_of_tax))))

\* one pass of the loop of get_after_tax_wages: month i (counted from 0)
AfterTaxMonth(st, i, taxable_wage, tax_base) ==
  AfterTaxAccumulated(st, i, taxable_wage,
                      Add(st.accumulated_taxable_wage, tax_base),
                      Add(st.accumulated_wage_free_of_tax, WAGE_FREE_OF_TAX[i + 1]))

\* a pass is made only while nothing was raised
AfterTaxNext(st, i, taxable_wage, tax_base) ==
  IF st.status # "ok" THEN st ELSE AfterTaxMonth(st, i, taxable_wage, tax_base)

\* the loop over the months 0 .. size - 1
AfterTaxLoop(taxable_wages, tax_bases) ==
  LET after[m \in 0 .. Len(taxable_wages)] ==
        IF m = 0 THEN AfterTaxStart
        ELSE AfterTaxNext(after[m - 1], m - 1, taxable_wages[m], tax_bases[m])
  IN  after[Len(taxable_wages)]

\* what get_after_tax_wages returns or raises after the loop ended in st
AfterTaxResult(st) ==
  IF st.status = "ok" THEN [status |-> "ok", value |-> st.after_tax_wages]
  ELSE [status |-> st.status, value |-> <<>>]

get_after_tax_wages(taxable_wages, tax_bases) ==
  IF ~(Len(taxable_wages) = 12 /\ Len(tax_bases) = Len(taxable_wages))
  THEN [status |-> "AssertionError", value |-> <<>>]
  ELSE AfterTaxResult(AfterTaxLoop(taxable_wages, tax_bases))

---------------------------------------------------------------------------
(* SeparateAfterTaxWageCalculator *)

\* the bonus table with the offsets that make the tax continuous in the bonus
BONUS_TAX_RATIO_Continuous ==
  << Bracket(Yuan(0), Yuan(3000), <<3, 100>>, Yuan(0)),
     Bracket(Yuan(3000), Yuan(12000), <<10, 100>>, Yuan(2520)),
     Bracket(Yuan(12000), Yuan(25000), <<20, 100>>, Yuan(16920)),
     Bracket(Yuan(25000), Yuan(35000), <<25, 100>>, Yuan(31920)),
     Bracket(Yuan(35000), Yuan(55000), <<30, 100>>, Yuan(52920)),
     Bracket(Yuan(55000), Yuan(80000), <<35, 100>>, Yuan(85920)),
     Bracket(Yuan(80000), sys_maxsize, <<45, 100>>, Yuan(181920)) >>

BONUS_TAX_RATIO ==
  << Bracket(Yuan(0), Yuan(3000), <<3, 100>>, Yuan(0)),
     Bracket(Yuan(3000), Yuan(12000), <<10, 100>>, Yuan(210)),
     Bracket(Yuan(12000), Yuan(25000), <<20, 100>>, Yuan(1410)),
     Bracket(Yuan(25000), Yuan(35000), <<25, 100>>, Yuan(2660)),
     Bracket(Yuan(35000), Yuan(55000), <<30, 100>>, Yuan(4410)),
     Bracket(Yuan(55000), Yuan(80000), <<35, 100>>, Yuan(7160)),
     Bracket(Yuan(80000), sys_maxsize, <<45, 100>>, Yuan(15160)) >>

\* the first bracket, from position k on, with min < taxable_wage / 12 <= max;
\* the quotient is compared exactly: min * 12 < taxable_wage <= max * 12
FirstBonusMatch(taxable_wage) ==
  LET first[k \in 1 .. Len(BONUS_TAX_RATIO) + 1] ==
        IF k > Len(BONUS_TAX_RATIO) THEN NoTaxRatio
        ELSE IF /\ Less(MulInt(BONUS_TAX_RATIO[k].min, 12), taxable_wage)
                /\ Leq(taxable_wage, MulInt(BONUS_TAX_RATIO[k].max, 12))
             THEN BONUS_TAX_RATIO[k]
        ELSE first[k + 1]
  IN  first[1]

\* SeparateAfterTaxWageCalculator.get_tax_ratio
get_bonus_tax_ratio(taxable_wage) == FirstBonusMatch(taxable_wage)

\* tax_amount under the bracket tax_ratio
BonusTaxUnder(taxable_wage, tax_ratio) ==
  Sub(MulRatio(taxable_wage, tax_ratio.ratio), tax_ratio.coupon)

\* tax_amount of SeparateAfterTaxWageCalculator.get_after_tax_wage
BonusTaxAmount(taxable_wage) ==
  BonusTaxUnder(taxable_wage, get_bonus_tax_ratio(taxable_wage))

\* SeparateAfterTaxWageCalculator.get_after_tax_wage
get_after_tax_wage(taxable_wage) == Sub(taxable_wage, BonusTaxAmount(taxable_wage))

---------------------------------------------------------------------------
(* __main__: the search for the monthly gross wage *)

RECURSIVE Sum(_, _)
Sum(s, k) == IF k > Len(s) THEN Zero ELSE Add(s[k], Sum(s, k + 1))

Twelve(x) == <<x, x, x, x, x, x, x, x, x, x, x, x>>

\* sum(after_tax_wages) + the after-tax bonus
ForwardSum(gross_wage_per_month, annual_one_time_bonus_multiplier, after) ==
  IF after.status # "ok" THEN [status |-> after.status, value |-> Zero]
  ELSE [status |-> "ok",
        value |-> Add(Sum(after.value, 1),
                      get_after_tax_wage(MulInt(gross_wage_per_month,
                                                annual_one_time_bonus_multiplier)))]

\* the pipeline after get_taxable_wages returned or raised
ForwardTaxable(gross_wage_per_month, annual_one_time_bonus_multiplier, taxable) ==
  IF taxable.status # "ok" THEN [status |-> taxable.status, value |-> Zero]
  ELSE ForwardSum(gross_wage_per_month, annual_one_time_bonus_multiplier,
                  get_after_tax_wages(taxable.value, taxable.value))

\* computed_total_after_tax_wage for one candidate monthly gross wage, or
\* the error the pipeline raises
ForwardTotal(gross_wage_per_month, annual_one_time_bonus_multiplier) ==
  ForwardTaxable(gross_wage_per_month, annual_one_time_bonus_multiplier,
                 get_taxable_wages(Twelve(gross_wage_per_month),
                                   Twelve(gross_wage_per_month),
                                   Twelve(gross_wage_per_month)))

\* the comparison with a step of 2 on the upper end
SearchCompareStepTwo(s, computed_gross_wage_per_month, total) ==
  IF total.status # "ok"
  THEN [s EXCEPT !.computed_gross_wage_per_month = computed_gross_wage_per_month,
                 !.ended = total.status]
  ELSE IF Less(total.value, s.actual_total_after_tax_wage)
  THEN [s EXCEPT !.computed_gross_wage_per_month = computed_gross_wage_per_month,
                 !.computed_total_after_tax_wage = total.value,
                 !.lo = s.lo + 1]
  ELSE [s EXCEPT !.computed_gross_wage_per_month = computed_gross_wage_per_month,
                 !.computed_total_after_tax_wage = total.value,
                 !.hi = s.hi - 2]

\* the comparison that ends a pass of the while loop
SearchCompare(s, computed_gross_wage_per_month, total) ==
  IF total.status # "ok"
  THEN [s EXCEPT !.computed_gross_wage_per_month = computed_gross_wage_per_month,
                 !.ended = total.status]
  ELSE IF Less(total.value, s.actual_total_after_tax_wage)
  THEN [s EXCEPT !.computed_gross_wage_per_month = computed_gross_wage_per_month,
                 !.computed_total_after_tax_wage = total.value,
                 !.lo = s.lo + 1]
  ELSE IF Less(s.actual_total_after_tax_wage, total.value)
  THEN [s EXCEPT !.computed_gross_wage_per_month = computed_gross_wage_per_month,
                 !.computed_total_after_tax_wage = total.value,
                 !.hi = s.hi - 1]
  ELSE [s EXCEPT !.computed_gross_wage_per_month = computed_gross_wage_per_month,
                 !.computed_total_after_tax_wage = total.value,
                 !.ended = "break"]

\* the pass for the candidate computed_gross_wage_per_month
SearchAt(s, computed_gross_wage_per_month) ==
  SearchCompare(s, computed_gross_wage_per_month,
                ForwardTotal(computed_gross_wage_per_month,
                             s.annual_one_time_bonus_multiplier))

\* one pass of the while loop (lo < hi holds)
SearchPass(s) == SearchAt(s, Add(DivSmall(Yuan(s.hi - s.lo), 2), Yuan(s.lo)))

\* the variables of __main__ before the while loop
SearchStart(lo, hi, actual_total_after_tax_wage, annual_one_time_bonus_multiplier) ==
  [lo |-> lo, hi |-> hi,
   actual_total_after_tax_wage |-> actual_total_after_tax_wage,
   annual_one_time_bonus_multiplier |-> annual_one_time_bonus_multiplier,
   computed_gross_wage_per_month |-> Zero,
   computed_total_after_tax_wage |-> Zero,
   ended |-> "no"]

NoSearch == SearchStart(0, 0, Zero, 0)

---------------------------------------------------------------------------
(* The calls a caller makes, and their inputs *)

\* y + m / 1000 yuan
Mills(y, m) == <<y, m * (Frac \div 1000)>>

Half == Mills(0, 500)

\* the series v, v, ..., v of length n with b in month j (counted from 1)
Series(n, v, j, b) == [[m \in 1 .. n |-> v] EXCEPT ![j] = b]

NoLoop == [i |-> 0, st |-> AfterTaxStart]

\* the largest hi - lo a search of Spec starts with
MaxSpan == 5

CommonWages ==
  {Yuan(0), Yuan(7310), Yuan(20000), Yuan(36549), Yuan(50000), Yuan(100000000)}

SpecialGross == {Yuan(100), Yuan(949), Yuan(6395), Yuan(6396), Yuan(100000000)}

InsuranceBases ==
  {Yuan(0), Yuan(7309), Yuan(7310), Yuan(7311), Yuan(20000), Yuan(36549), Yuan(36550),
   Yuan(100000000)}

FundBases ==
  {Yuan(0), Yuan(2585), Yuan(2586), Yuan(30000), Yuan(36542), Yuan(36543),
   Yuan(100000000)}

InitTaxable ==
  /\ pc = "call"
  /\ \E v \in CommonWages, j \in {1, 12}, g \in SpecialGross,
        sb \in InsuranceBases, hb \in FundBases, n \in {11, 12} :
       /\ n = 11 => (j = 1 /\ g = Yuan(100) /\ sb = Yuan(0) /\ hb = Yuan(0))
       /\ args = [call |-> "get_taxable_wages",
                  gross_wages |-> Series(n, v, j, g),
                  social_insurance_bases |-> Series(12, v, j, sb),
                  housing_fund_bases |-> Series(12, v, j, hb)]
  /\ ret = <<>>
  /\ loop = NoLoop
  /\ search = NoSearch

\* 10^18 yuan
Huge == <<10000, 0, 0, 0>>

TaxBases ==
  {Yuan(0), Yuan(3000), Yuan(5000), Mills(5000, 500), Yuan(10000), Yuan(17000),
   Yuan(30000), Yuan(85000), Yuan(100000000), Huge}

InitAfterTax ==
  /\ pc = "call"
  /\ \E v \in TaxBases, j \in {1, 2, 12}, b \in TaxBases :
       args = [call |-> "get_after_tax_wages",
               taxable_wages |-> Series(12, v, j, b),
               tax_bases |-> Series(12, v, j, b)]
  /\ ret = <<>>
  /\ loop = NoLoop
  /\ search = NoSearch

\* the bonus at which the monthly equivalent is the upper bound of bracket k
BonusBoundary(k) == MulInt(BONUS_TAX_RATIO[k].max, 12)

BonusPoints ==
  {Yuan(0), Yuan(1000), Yuan(100000)} \cup {BonusBoundary(k) : k \in 1 .. 6}

InitBonus ==
  /\ pc = "call"
  /\ \E x \in BonusPoints, d \in {Half, Yuan(1), Yuan(1000)} :
       args = [call |-> "get_after_tax_wage", taxable_wage |-> <<x, Add(x, d)>>]
  /\ ret = <<>>
  /\ loop = NoLoop
  /\ search = NoSearch

\* the bounds of the brackets of both tables, and the amounts next to them
Edges ==
  {TAX_RATIO_PER_MONTH[k].max : k \in 1 .. 7} \cup {BONUS_TAX_RATIO[k].max : k \in 1 .. 7}

RatioPoints ==
  {Yuan(0), Half, Yuan(1)}
    \cup Edges
    \cup {Sub(e, Half) : e \in Edges}
    \cup {Add(e, Half) : e \in Edges}

InitRatio ==
  /\ pc = "call"
  /\ \E x \in RatioPoints :
       \/ \E month \in 0 .. 11 :
            args = [call |-> "AfterTaxWageCalculator.get_tax_ratio",
                    month |-> month, net_taxable_wage |-> x]
       \/ args = [call |-> "SeparateAfterTaxWageCalculator.get_tax_ratio",
                  taxable_wage |-> MulInt(x, 12)]
  /\ ret = <<>>
  /\ loop = NoLoop
  /\ search = NoSearch

GrossPoints ==
  {Yuan(949), Yuan(1000), Yuan(7310), Yuan(35999), Yuan(36000), Mills(36000, 500),
   Yuan(36001), Yuan(50000), Yuan(100000)}

InitForward ==
  /\ pc = "call"
  /\ \E g1 \in GrossPoints, g2 \in GrossPoints, m \in {1, 2} :
       /\ Leq(g1, g2)
       /\ args = [call |-> "forward", gross_wage_per_month |-> <<g1, g2>>,
                  annual_one_time_bonus_multiplier |-> m]
  /\ ret = <<>>
  /\ loop = NoLoop
  /\ search = NoSearch

SearchTargets == {Yuan(0), Mills(1587, 400), Yuan(1000000)}

InitSearch ==
  /\ pc = "search"
  /\ \E lo \in {0, 945, 998, 36000, 99995}, d \in 0 .. MaxSpan, t \in SearchTargets :
       /\ args = [call |-> "search", lo |-> lo, hi |-> lo + d]
       /\ search = SearchStart(lo, lo + d, t, 1)
  /\ ret = <<>>
  /\ loop = NoLoop

Init ==
  \/ InitTaxable
  \/ InitAfterTax
  \/ InitBonus
  \/ InitRatio
  \/ InitForward
  \/ InitSearch

GetTaxableWages ==
  /\ pc = "call"
  /\ args.call = "get_taxable_wages"
  /\ ret' = get_taxable_wages(args.gross_wages, args.social_insurance_bases,
                              args.housing_fund_bases)
  /\ pc' = "done"
  /\ UNCHANGED <<args, loop, search>>

\* one pass of the loop of get_after_tax_wages
AfterTaxPass ==
  /\ pc = "call"
  /\ args.call = "get_after_tax_wages"
  /\ Len(args.taxable_wages) = 12 /\ Len(args.tax_bases) = Len(args.taxable_wages)
  /\ loop.i < Len(args.taxable_wages)
  /\ loop.st.status = "ok"
  /\ loop' = [i |-> loop.i + 1,
              st |-> AfterTaxMonth(loop.st, loop.i, args.taxable_wages[loop.i + 1],
                                   args.tax_bases[loop.i + 1])]
  /\ UNCHANGED <<pc, args, ret, search>>

\* the loop ended, or a pass raised
AfterTaxReturn ==
  /\ pc = "call"
  /\ args.call = "get_after_tax_wages"
  /\ loop.i = Len(args.taxable_wages) \/ loop.st.status # "ok"
  /\ ret' = IF loop.st.status = "ok"
            THEN [status |-> "ok", value |-> loop.st.after_tax_wages]
            ELSE [status |-> loop.st.status, value |-> <<>>]
  /\ pc' = "done"
  /\ UNCHANGED <<args, loop, search>>

GetAfterTaxWage ==
  /\ pc = "call"
  /\ args.call = "get_after_tax_wage"
  /\ ret' = <<get_after_tax_wage(args.taxable_wage[1]),
              get_after_tax_wage(args.taxable_wage[2])>>
  /\ pc' = "done"
  /\ UNCHANGED <<args, loop, search>>

GetTaxRatio ==
  /\ pc = "call"
  /\ args.call = "AfterTaxWageCalculator.get_tax_ratio"
  /\ ret' = get_tax_ratio(args.month, args.net_taxable_wage)
  /\ pc' = "done"
  /\ UNCHANGED <<args, loop, search>>

GetBonusTaxRatio ==
  /\ pc = "call"
  /\ args.call = "SeparateAfterTaxWageCalculator.get_tax_ratio"
  /\ ret' = get_bonus_tax_ratio(args.taxable_wage)
  /\ pc' = "done"
  /\ UNCHANGED <<args, loop, search>>

\* the forward computation of the search, and its bonus part, for two wages
Forward ==
  /\ pc = "call"
  /\ args.call = "forward"
  /\ ret' = [k \in 1 .. 2 |->
              [total |-> ForwardTotal(args.gross_wage_per_month[k],
                                      args.annual_one_time_bonus_multiplier),
               bonus |-> get_after_tax_wage(
                           MulInt(args.gross_wage_per_month[k],
                                  args.annual_one_time_bonus_multiplier))]]
  /\ pc' = "done"
  /\ UNCHANGED <<args, loop, search>>

\* one pass of the while loop of __main__
SearchStep ==
  /\ pc = "search"
  /\ search.lo < search.hi
  /\ search' = SearchPass(search)
  /\ pc' = IF search'.ended = "no" THEN "search" ELSE "done"
  /\ UNCHANGED <<args, ret, loop>>

\* the while condition fails
SearchExit ==
  /\ pc = "search"
  /\ ~(search.lo < search.hi)
  /\ pc' = "done"
  /\ search' = [search EXCEPT !.ended = "exhausted"]
  /\ UNCHANGED <<args, ret, loop>>

Next ==
  \/ GetTaxableWages
  \/ AfterTaxPass
  \/ AfterTaxReturn
  \/ GetAfterTaxWage
  \/ GetTaxRatio
  \/ GetBonusTaxRatio
  \/ Forward
  \/ SearchStep
  \/ SearchExit

Spec == Init /\ [][Next]_vars

---------------------------------------------------------------------------
(* The search of __main__ with the values __main__ gives it *)

InitMain ==
  /\ pc = "search"
  /\ args = [call |-> "search", lo |-> 0, hi |-> 100000]
  /\ ret = <<>>
  /\ loop = NoLoop
  /\ search = SearchStart(0, 100000, Yuan(1000000), 1)

NextMain == SearchStep \/ SearchExit

SpecMain == InitMain /\ [][NextMain]_vars

---------------------------------------------------------------------------
(* Properties of get_taxable_wages *)

\* a call of get_taxable_wages on three lists of 12 months has returned or raised
TaxableDone ==
  pc = "done" /\ args.call = "get_taxable_wages" /\ Len(args.gross_wages) = 12

\* the deduction of month m (counted from 1) of the call
DeductionOf(m) ==
  PreTaxDeduction(m - 1, args.social_insurance_bases[m], args.housing_fund_bases[m])

\* C1: get_taxable_wages raises ValueError and returns nothing exactly when
\* the deduction of some month is greater than that month's gross wage; it
\* never puts 0 in place of a negative taxable wage, and otherwise it returns
\* 12 values, each the gross wage less the deduction.
C1_RaisesWhenDeductionExceedsGross ==
  TaxableDone =>
    IF \E m \in 1 .. 12 : Less(args.gross_wages[m], DeductionOf(m))
    THEN ret.status = "ValueError" /\ ret.value = <<>>
    ELSE /\ ret.status = "ok"
         /\ Len(ret.value) = 12
         /\ \A m \in 1 .. 12 :
              Eq(ret.value[m], Sub(args.gross_wages[m], DeductionOf(m)))

\* C1: a call with a gross wage of 100 in the first month has raised
C1_Witness ==
  /\ TaxableDone
  /\ Eq(args.gross_wages[1], Yuan(100))
  /\ Less(args.gross_wages[1], DeductionOf(1))
  /\ ret.status = "ValueError"

\* 0.08 + 0.02 + 0.005, the sum of the personal insurance ratios
TotalInsuranceRatio == <<105, 1000>>

\* 7310 * 0.105 and 36549 * 0.105
InsuranceFloor == MulRatio(Yuan(7310), TotalInsuranceRatio)

InsuranceCeiling == MulRatio(Yuan(36549), TotalInsuranceRatio)

\* the insurance part in closed form
ExpectedInsurance(base) ==
  IF Leq(base, Yuan(7310)) THEN InsuranceFloor
  ELSE IF Leq(Yuan(36549), base) THEN InsuranceCeiling
  ELSE MulRatio(base, TotalInsuranceRatio)

\* the housing-fund part in closed form
ExpectedHousingFund(base) ==
  IF Less(MulRatio(base, <<7, 100>>), Yuan(181)) THEN Yuan(181)
  ELSE IF Less(Yuan(2558), MulRatio(base, <<7, 100>>)) THEN Yuan(2558)
  ELSE MulRatio(base, <<7, 100>>)

\* C10: the insurance part is 7310 * 0.105 for a base <= 7310, 36549 * 0.105
\* for a base >= 36549 and base * 0.105 between; the housing-fund part is 181
\* when base * 0.07 < 181, 2558 when base * 0.07 > 2558 and base * 0.07
\* otherwise; the deduction lies in [7310 * 0.105 + 181, 36549 * 0.105 + 2558],
\* it is what a successful call subtracts, and a month with bases at least
\* those of another month has a deduction at least that of the other month.
C10_DeductionClampsAtBounds ==
  TaxableDone =>
    \A m \in 1 .. 12 :
      /\ Eq(InsuranceSum(args.social_insurance_bases[m], SOCIAL_INSURANCE_PERSONAL[m]),
            ExpectedInsurance(args.social_insurance_bases[m]))
      /\ Eq(HousingFundPart(args.housing_fund_bases[m], HOUSING_FUND_PERSONAL[m]),
            ExpectedHousingFund(args.housing_fund_bases[m]))
      /\ Eq(DeductionOf(m), Add(ExpectedInsurance(args.social_insurance_bases[m]),
                                ExpectedHousingFund(args.housing_fund_bases[m])))
      /\ Leq(Add(InsuranceFloor, Yuan(181)), DeductionOf(m))
      /\ Leq(DeductionOf(m), Add(InsuranceCeiling, Yuan(2558)))
      /\ ret.status = "ok" =>
           Eq(Sub(args.gross_wages[m], ret.value[m]), DeductionOf(m))
      /\ \A n \in 1 .. 12 :
           (/\ Leq(args.social_insurance_bases[m], args.social_insurance_bases[n])
            /\ Leq(args.housing_fund_bases[m], args.housing_fund_bases[n]))
             => Leq(DeductionOf(m), DeductionOf(n))

\* C10: a successful call with an insurance base under the lower bound and a
\* housing-fund amount over the upper bound in the first month
C10_Witness ==
  /\ TaxableDone
  /\ ret.status = "ok"
  /\ Less(args.social_insurance_bases[1], Yuan(7310))
  /\ Less(Yuan(2558), MulRatio(args.housing_fund_bases[1], <<7, 100>>))
  /\ Eq(Sub(args.gross_wages[1], ret.value[1]), Add(InsuranceFloor, Yuan(2558)))

\* the call of __main__: 100,000,000 as gross wage, insurance base and fund
\* base of every month
RoundTripDone ==
  /\ TaxableDone
  /\ \A m \in 1 .. 12 :
       /\ Eq(args.gross_wages[m], Yuan(100000000))
       /\ Eq(args.social_insurance_bases[m], Yuan(100000000))
       /\ Eq(args.housing_fund_bases[m], Yuan(100000000))

\* C2, as amended: with 100,000,000 as gross wage, insurance base and fund
\* base of all 12 months, get_taxable_wages returns for every month the gross
\* wage less (36549 * 0.105 + 2558): the housing-fund part is the upper bound
\* 2558 itself, not 2558 * 0.07.
C2_RoundTripTaxableWages ==
  RoundTripDone =>
    /\ ret.status = "ok"
    /\ Len(ret.value) = 12
    /\ \A m \in 1 .. 12 :
         Eq(ret.value[m], Sub(Yuan(100000000), Add(InsuranceCeiling, Yuan(2558))))

\* C2, as stated: the deduction is 36549 * 0.105 + 2558 * 0.07
C2_AsStated ==
  RoundTripDone =>
    /\ ret.status = "ok"
    /\ Len(ret.value) = 12
    /\ \A m \in 1 .. 12 :
         Eq(ret.value[m],
            Sub(Yuan(100000000),
                Add(InsuranceCeiling, MulRatio(Yuan(2558), <<7, 100>>))))

\* C2: the call of __main__ has returned 12 values
C2_Witness == RoundTripDone /\ ret.status = "ok" /\ Len(ret.value) = 12

---------------------------------------------------------------------------
(* Properties of the bracket tables *)

\* get_after_tax_wage has returned for a bonus on the upper bound of bracket
\* k, 12 * max, and for a bonus over it inside bracket k + 1
BonusDoneAt(k) ==
  /\ pc = "done"
  /\ args.call = "get_after_tax_wage"
  /\ Eq(args.taxable_wage[1], BonusBoundary(k))

\* the part of the bonus over the boundary
OverBoundary == Sub(args.taxable_wage[2], args.taxable_wage[1])

RatioDone ==
  /\ pc = "done"
  /\ args.call \in {"AfterTaxWageCalculator.get_tax_ratio",
                    "SeparateAfterTaxWageCalculator.get_tax_ratio"}

\* the call is that of the monthly calculator
MonthlyCall == args.call = "AfterTaxWageCalculator.get_tax_ratio"

\* the brackets of the call's table that hold the call's amount
Holding ==
  IF MonthlyCall
  THEN {k \in 1 .. 7 : /\ Less(TAX_RATIO[args.month + 1][k].min, args.net_taxable_wage)
                       /\ Leq(args.net_taxable_wage, TAX_RATIO[args.month + 1][k].max)}
  ELSE {k \in 1 .. 7 : /\ Less(MulInt(BONUS_TAX_RATIO[k].min, 12), args.taxable_wage)
                       /\ Leq(args.taxable_wage, MulInt(BONUS_TAX_RATIO[k].max, 12))}

\* the amount of the call is positive and at most sys.maxsize (12 times that
\* for the bonus, whose twelfth is looked up)
PositiveInRange ==
  IF MonthlyCall
  THEN Less(Zero, args.net_taxable_wage) /\ Leq(args.net_taxable_wage, sys_maxsize)
  ELSE Less(Zero, args.taxable_wage) /\ Leq(args.taxable_wage, MulInt(sys_maxsize, 12))

NonNegativeInRange ==
  IF MonthlyCall
  THEN Leq(Zero, args.net_taxable_wage) /\ Leq(args.net_taxable_wage, sys_maxsize)
  ELSE Leq(Zero, args.taxable_wage) /\ Leq(args.taxable_wage, MulInt(sys_maxsize, 12))

\* each bracket of a table starts where the one before it ends
Ordered(table) ==
  /\ \A k \in 1 .. 7 : Less(table[k].min, table[k].max)
  /\ \A k \in 1 .. 6 : Eq(table[k].max, table[k + 1].min)
  /\ Eq(table[1].min, Zero)
  /\ Eq(table[7].max, sys_maxsize)

\* C9, as amended: both tables are ordered without overlap and cover
\* 0 < x <= sys.maxsize: for such x exactly one bracket has min < x <= max and
\* get_tax_ratio returns it; for x = 0 (and for x over sys.maxsize) no bracket
\* has, and get_tax_ratio returns the bracket of zeros.
C9_TablesCoverPositiveAmounts ==
  RatioDone =>
    /\ Ordered(BONUS_TAX_RATIO)
    /\ MonthlyCall => Ordered(TAX_RATIO[args.month + 1])
    /\ IF PositiveInRange
       THEN /\ Cardinality(Holding) = 1
            /\ ret # NoTaxRatio
            /\ \A k \in Holding :
                 ret = IF MonthlyCall THEN TAX_RATIO[args.month + 1][k]
                       ELSE BONUS_TAX_RATIO[k]
       ELSE Holding = {} /\ ret = NoTaxRatio

\* C9, as stated: for 0 <= x <= sys.maxsize exactly one bracket holds x and
\* the bracket of zeros is not returned
C9_AsStated ==
  (RatioDone /\ NonNegativeInRange) => (Cardinality(Holding) = 1 /\ ret # NoTaxRatio)

\* C9: the monthly get_tax_ratio has returned the bracket of zeros for 0
C9_Witness ==
  /\ RatioDone
  /\ MonthlyCall
  /\ Eq(args.net_taxable_wage, Zero)
  /\ ret = NoTaxRatio

---------------------------------------------------------------------------
(* Properties of get_after_tax_wages *)

AfterTaxCall == args.call = "get_after_tax_wages"

\* every month has the same tax base, which is not negative
ConstantTaxBase ==
  /\ Leq(Zero, args.tax_bases[1])
  /\ \A m \in 1 .. 12 : Eq(args.tax_bases[m], args.tax_bases[1])

\* C7: with the same non-negative tax base in every month, no pass of the
\* loop of get_after_tax_wages finds current_tax_amount < 0 (so
\* accumulated_tax_amount_paid never decreases) and the call does not raise.
C7_PaidNeverDecreases ==
  (AfterTaxCall /\ ConstantTaxBase) =>
    /\ loop.st.status = "ok"
    /\ Leq(Zero, loop.st.current_tax_amount)
    /\ pc = "done" => (ret.status = "ok" /\ Len(ret.value) = 12)

\* no tax base is negative, and none is over 100,000,000
OrdinaryTaxBases ==
  \A m \in 1 .. 12 :
    Leq(Zero, args.tax_bases[m]) /\ Leq(args.tax_bases[m], Yuan(100000000))

\* C8: for every series of 12 non-negative tax bases no pass of the loop of
\* get_after_tax_wages finds current_tax_amount < 0, and the call returns 12
\* values without raising.
C8_NoNegativeMonth ==
  (AfterTaxCall /\ OrdinaryTaxBases) =>
    /\ loop.st.status = "ok"
    /\ Leq(Zero, loop.st.current_tax_amount)
    /\ pc = "done" => (ret.status = "ok" /\ Len(ret.value) = 12)

---------------------------------------------------------------------------
(* Properties of the search of __main__ *)

ForwardDone ==
  /\ pc = "done"
  /\ args.call = "forward"
  /\ ret[1].total.status = "ok"
  /\ ret[2].total.status = "ok"

\* C5: for monthly gross wages g1 <= g2 on which the pipeline raises nothing,
\* the total of g1 is at most that of g2, and so is the after-tax bonus.
C5_ForwardNonDecreasing ==
  ForwardDone =>
    /\ Leq(ret[1].total.value, ret[2].total.value)
    /\ Leq(ret[1].bonus, ret[2].bonus)

SearchCall == args.call = "search"

\* the state the loop may end in
SearchEnded ==
  \/ search.ended = "exhausted" /\ search.lo >= search.hi
  \/ /\ search.ended = "break"
     /\ Eq(search.computed_total_after_tax_wage, search.actual_total_after_tax_wage)
  \/ search.ended = "ValueError"

\* lo and hi stay between the ends the search started with, and in order
SearchInRange ==
  SearchCall =>
    /\ args.lo <= search.lo
    /\ search.lo <= search.hi
    /\ search.hi <= args.hi
    /\ pc = "search" => search.ended = "no"
    /\ pc = "done" => SearchEnded

\* a pass that does not stop moves exactly one end by 1; the loop goes on as
\* long as lo < hi, and stops at once when lo >= hi
SearchNarrows ==
  (SearchCall /\ pc = "search") =>
    /\ pc' \in {"search", "done"}
    /\ pc' = "search" =>
         /\ search.lo < search.hi
         /\ \/ search'.lo = search.lo + 1 /\ search'.hi = search.hi
            \/ search'.lo = search.lo /\ search'.hi = search.hi - 1
         /\ search'.hi - search'.lo = (search.hi - search.lo) - 1
    /\ (pc' = "done" /\ search.lo < search.hi) =>
         search'.ended \in {"break", "ValueError"}

\* C6: the search loop makes at most hi - lo passes: lo <= hi is kept within
\* the starting range, every pass that does not stop changes exactly one of
\* lo (by +1) and hi (by -1), and the loop ends only with lo >= hi, with the
\* computed total equal to the target, or with the ValueError of the pipeline.
C6_SearchBounded == [](SearchInRange) /\ [][SearchNarrows]_vars

\* C6: a search over the widest range has ended with lo >= hi after
\* hi - lo passes
C6_Witness ==
  /\ SearchCall
  /\ pc = "done"
  /\ search.ended = "exhausted"
  /\ args.hi - args.lo = MaxSpan
  /\ (search.lo - args.lo) + (args.hi - search.hi) = MaxSpan

\* the distance of two amounts
Distance(a, b) == IF Less(a, b) THEN Sub(b, a) ELSE Sub(a, b)

\* the change of the total when the monthly gross wage g is lowered by 1
UnitStep(g, annual_one_time_bonus_multiplier) ==
  Distance(ForwardTotal(g, annual_one_time_bonus_multiplier).value,
           ForwardTotal(Sub(g, Yuan(1)), annual_one_time_bonus_multiplier).value)

\* C4: the search of __main__ ends with lo >= hi and a computed total that
\* differs from the target 1,000,000 by no more than a unit step of the
\* monthly gross wage changes the total.
C4_SearchReachesTarget ==
  (SearchCall /\ pc = "done") =>
    /\ search.lo >= search.hi
    /\ Leq(Distance(search.computed_total_after_tax_wage,
                    search.actual_total_after_tax_wage),
           UnitStep(search.computed_gross_wage_per_month,
                    search.annual_one_time_bonus_multiplier))

===========================================================================
